---- MODULE Spec2Model ----
(***************************************************************************)
(* A model of the beginner Python projects of this repository.            *)
(*                                                                         *)
(* Part 1: the Gemini chatbot of src/mini_chatbot/advanced/main.py: the    *)
(* class AdvancedChatbot (the conversation session) and the command loop   *)
(* of main().  Its specification is Spec.                                  *)
(* Part 2: the number guessing game of src/number_guessing_game/main.py.   *)
(* Its specification is SpecGame.                                          *)
(* Part 3: the banking app of src/simple-bank-app/main.py.  Its            *)
(* specification is SpecBank.                                              *)
(* Each program is a process of its own: in the specification of one, the  *)
(* variables of the other two stay at their idle values.                   *)
(*                                                                         *)
(* Text is modelled by TLA+ strings, on which TLC evaluates Len, SubSeq    *)
(* and \o; the Python string methods the program uses (strip, lower, the   *)
(* substring test `in`) are computed character by character.  The emoji    *)
(* glyphs that open some printed lines are left out of the literals.       *)
(*                                                                         *)
(* The environment (the process environment, the remote Gemini service,    *)
(* the file system, the terminal) is a nondeterministic choice in the      *)
(* actions: what a remote call returns or raises, whether a file can be    *)
(* written, which line the user types.                                     *)
(***************************************************************************)
EXTENDS Integers, Sequences, FiniteSets, TLC

VARIABLES
    pc,                   \* where main() is: "start", "loop", "done" (returned), "exited" (sys.exit(1))
    env_key,              \* os.environ's GEMINI_API_KEY: <<>> when unset, else <<value>>
    api_key,              \* self.api_key
    conversation_history, \* self.conversation_history, a sequence of ChatMessage
    chat_session,         \* self.chat_session: <<>> for None, else <<n>>, the n-th session started
    sessions,             \* the number of chat sessions started so far
    clock,                \* datetime.now(), a logical clock that ticks at every ChatMessage
    prompts,              \* the number of input("You: ") calls so far
    remote_used,          \* whether any call went to the remote service
    answers,              \* what the environment answered to the calls of the last step
    line,                 \* the line the last input() returned: <<>> when none, else <<text>>
    calls,                \* the AdvancedChatbot methods (and print_help) the last step called
    returned,             \* what the last called method returned: <<>> or <<text>>
    raised,               \* the exception that reached main()'s try block in the last step
    printed,              \* the lines the last step printed
    dumped,               \* what the last step handed to json.dump: <<>> or <<data>>
    \* the number guessing game
    g_pc,                 \* where the game's main() is: "off", "start", "play", "over" (the loop left), "done"
    number_to_guess,      \* number_to_guess
    attempts,             \* attempts
    guess_found,          \* guess_found
    guesses,              \* how many inputs int() has parsed so far
    g_inputs,             \* how many lines the game has read so far
    g_line,               \* the line the game's last input() returned: <<>> or <<text>>
    g_output,             \* the lines the game has printed so far
    \* the banking app
    b_pc,                 \* where the bank's main() is: "off", "menu", "done", "crashed" (ValueError)
    balance,              \* balance
    b_float,              \* whether balance holds a float (the int 0 until the first deposit)
    b_inputs,             \* how many menu choices the app has read so far
    b_choice,             \* the last menu choice: <<>> or <<text>>
    b_amount,             \* the text typed for the amount in the last step: <<>> or <<text>>
    b_printed             \* the lines the app's last step printed

chat_vars == <<pc, env_key, api_key, conversation_history, chat_session,
               sessions, clock, prompts, remote_used, answers, line, calls,
               returned, raised, printed, dumped>>
game_vars == <<g_pc, number_to_guess, attempts, guess_found, guesses, g_inputs,
               g_line, g_output>>
bank_vars == <<b_pc, balance, b_float, b_inputs, b_choice, b_amount, b_printed>>

vars == <<chat_vars, game_vars, bank_vars>>

\* the game is not running
GameIdle ==
    /\ g_pc = "off" /\ number_to_guess = 0 /\ attempts = 0 /\ guess_found = FALSE
    /\ guesses = 0 /\ g_inputs = 0 /\ g_line = <<>> /\ g_output = <<>>

\* the banking app is not running
BankIdle ==
    /\ b_pc = "off" /\ balance = 0 /\ b_float = FALSE /\ b_inputs = 0
    /\ b_choice = <<>>
    /\ b_amount = <<>> /\ b_printed = <<>>

-----------------------------------------------------------------------------
(* Bounds of the model *)

\* how many times the loop may prompt for input
MaxPrompts == 4

\* how many lines the number guessing game may read
MaxGameInputs == 5

\* how many menu choices the banking app may read
MaxBankInputs == 4

-----------------------------------------------------------------------------
(* Python's str methods *)

UPPERCASE == "ABCDEFGHIJKLMNOPQRSTUVWXYZ"
LOWERCASE == "abcdefghijklmnopqrstuvwxyz"
WHITESPACE == {" ", "\t", "\n", "\r"}

CharAt(s, i) == SubSeq(s, i, i)

\* the lower-case letter of every upper-case letter
LowerOf ==
    [c \in {CharAt(UPPERCASE, i) : i \in 1..Len(UPPERCASE)} |->
        CharAt(LOWERCASE, CHOOSE i \in 1..Len(UPPERCASE) : CharAt(UPPERCASE, i) = c)]

\* str.lower() on one character
lower_char(c) == IF c \in DOMAIN LowerOf THEN LowerOf[c] ELSE c

RECURSIVE lower(_)
lower(s) ==
    IF s = "" THEN "" ELSE lower_char(CharAt(s, 1)) \o lower(SubSeq(s, 2, Len(s)))

RECURSIVE lstrip(_)
lstrip(s) ==
    IF s # "" /\ CharAt(s, 1) \in WHITESPACE THEN lstrip(SubSeq(s, 2, Len(s))) ELSE s

RECURSIVE rstrip(_)
rstrip(s) ==
    IF s # "" /\ CharAt(s, Len(s)) \in WHITESPACE
    THEN rstrip(SubSeq(s, 1, Len(s) - 1))
    ELSE s

strip(s) == rstrip(lstrip(s))

\* Python's `sub in s` on strings
contains(s, sub) ==
    \E i \in 1..(Len(s) - Len(sub) + 1) : SubSeq(s, i, i + Len(sub) - 1) = sub

\* Python's truth value of an Optional[str]: None and "" are false
truthy(opt) == opt # <<>> /\ opt[1] # ""

\* Python's `a or b`
py_or(a, b) == IF truthy(a) THEN a ELSE b

-----------------------------------------------------------------------------
(* class ChatMessage and class AdvancedChatbot *)

\* ChatMessage(role, content): __post_init__ stamps it with datetime.now()
ChatMessage(role, content, now) ==
    [role |-> role, content |-> content, timestamp |-> now]

\* self.system_prompt (its first sentence stands for the whole persona text)
system_prompt == "You are a friendly, helpful, and engaging chatbot assistant."

\* datetime.isoformat(): the instant as text
isoformat(t) == ToString(t)

\* What the remote service may do to genai.list_models() at start-up.
ConnectOutcomes ==
    {[kind |-> "ok", text |-> ""],
     [kind |-> "raises", text |-> "API key not valid"],
     [kind |-> "interrupt", text |-> ""]}

\* What genai.GenerativeModel(...) / model.start_chat(history=[]) may do.
StartOutcomes ==
    {[kind |-> "ok", text |-> ""],
     [kind |-> "raises", text |-> "model not found"]}

\* _initialize_client that tests `self.api_key is None`, so accepts ""
_initialize_client_none_only(key, connect) ==
    IF key = <<>>
    THEN [exit |-> TRUE, raised |-> "none", remote |-> FALSE,
          printed |-> <<"Error: Google AI API key not found!",
                        "1. Set the GEMINI_API_KEY environment variable">>]
    ELSE IF connect.kind = "ok"
    THEN [exit |-> FALSE, raised |-> "none", remote |-> TRUE,
          printed |-> <<"Successfully connected to Google AI API">>]
    ELSE IF connect.kind = "raises"
    THEN [exit |-> TRUE, raised |-> "none", remote |-> TRUE,
          printed |-> <<"Error connecting to Google AI API: " \o connect.text>>]
    ELSE [exit |-> FALSE, raised |-> "KeyboardInterrupt", remote |-> TRUE,
          printed |-> <<>>]

\* AdvancedChatbot._initialize_client: sys.exit(1) without a key or a connection
_initialize_client(key, connect) ==
    IF ~truthy(key)
    THEN [exit |-> TRUE, raised |-> "none", remote |-> FALSE,
          printed |-> <<"Error: Google AI API key not found!",
                        "Please set your API key in one of these ways:",
                        "1. Set the GEMINI_API_KEY environment variable",
                        "2. Pass the API key when creating the chatbot",
                        "You can get an API key from: https://makersuite.google.com/app/apikey">>]
    ELSE IF connect.kind = "ok"
    THEN [exit |-> FALSE, raised |-> "none", remote |-> TRUE,
          printed |-> <<"Successfully connected to Google AI API">>]
    ELSE IF connect.kind = "raises"
    THEN [exit |-> TRUE, raised |-> "none", remote |-> TRUE,
          printed |-> <<"Error connecting to Google AI API: " \o connect.text,
                        "Please check your API key and internet connection.">>]
    ELSE \* KeyboardInterrupt is no Exception: it passes the except clause
         [exit |-> FALSE, raised |-> "KeyboardInterrupt", remote |-> TRUE,
          printed |-> <<>>]

\* AdvancedChatbot._start_chat_session: a new chat handle and the system
\* message appended to the history; sys.exit(1) when the handle cannot be made
_start_chat_session(history, session, started, now, start) ==
    IF start.kind = "ok"
    THEN [exit |-> FALSE,
          history |-> Append(history, ChatMessage("system", system_prompt, now)),
          chat_session |-> <<started + 1>>,
          printed |-> <<>>]
    ELSE [exit |-> TRUE,
          history |-> history,
          chat_session |-> session,
          printed |-> <<"Error starting chat session: " \o start.text>>]

\* AdvancedChatbot.__init__
AdvancedChatbot(arg, environ, now, connect, start) ==
    LET key    == py_or(arg, environ)
        client == _initialize_client(key, connect)
        chat   == _start_chat_session(<<>>, <<>>, 0, now, start)
    IN  IF client.exit \/ client.raised # "none"
        THEN [api_key |-> key, history |-> <<>>, chat_session |-> <<>>,
              exit |-> client.exit, raised |-> client.raised,
              remote |-> client.remote, printed |-> client.printed]
        ELSE [api_key |-> key, history |-> chat.history,
              chat_session |-> chat.chat_session,
              exit |-> chat.exit, raised |-> "none",
              remote |-> client.remote,
              printed |-> client.printed \o chat.printed]

\* What chat_session.send_message(user_message) / response.text may do:
\* return a text, raise an Exception with message `text`, or be cut short
\* by Ctrl-C (the typing indicator sleeps, the call blocks).
Replies == {"Hi! How can I help?"}
ErrorTexts ==
    {"Rate LIMIT reached", "API quota exceeded", "API key not valid",
     "Rapid timeout", "Connection reset"}
SendOutcomes ==
    [kind : {"ok"}, text : Replies]
    \cup [kind : {"send_raises", "text_raises"}, text : ErrorTexts]
    \cup {[kind |-> "interrupt", text |-> ""]}

RATE_LIMITED == "I'm getting too many requests right now. Please wait a moment and try again."
CONNECTIVITY == "I'm having trouble connecting to my brain right now. Error: "
UNKNOWN      == "Something unexpected happened: "

\* error_category with the test for "api" made first
error_category_api_first(e) ==
    LET error_message == lower(e)
    IN  IF contains(error_message, "api")
        THEN "connectivity"
        ELSE IF contains(error_message, "quota") \/ contains(error_message, "limit")
        THEN "rate-limited"
        ELSE "unknown"

\* the branch the except clause of get_ai_response takes for the exception e
error_category(e) ==
    LET error_message == lower(e)
    IN  IF contains(error_message, "quota") \/ contains(error_message, "limit")
        THEN "rate-limited"
        ELSE IF contains(error_message, "api")
        THEN "connectivity"
        ELSE "unknown"

\* the except clause of get_ai_response: the text returned for the exception e
error_response(e) ==
    LET category == error_category(e)
    IN  IF category = "rate-limited" THEN RATE_LIMITED
        ELSE IF category = "connectivity" THEN CONNECTIVITY \o e
        ELSE UNKNOWN \o e

\* get_ai_response that records the error text as an assistant message
get_ai_response_records_error(history, now, user_message, outcome) ==
    LET with_user == Append(history, ChatMessage("user", user_message, now))
    IN  IF outcome.kind = "ok"
        THEN [history |-> Append(with_user,
                                 ChatMessage("assistant", outcome.text, now + 1)),
              ticks |-> 2, returned |-> <<outcome.text>>, raised |-> "none"]
        ELSE IF outcome.kind \in {"send_raises", "text_raises"}
        THEN [history |-> Append(with_user,
                                 ChatMessage("assistant",
                                             error_response(outcome.text), now + 1)),
              ticks |-> 2,
              returned |-> <<error_response(outcome.text)>>, raised |-> "none"]
        ELSE [history |-> with_user, ticks |-> 1,
              returned |-> <<>>, raised |-> "KeyboardInterrupt"]

\* get_ai_response with response.text read after the try block
get_ai_response_text_outside_try(history, now, user_message, outcome) ==
    LET with_user == Append(history, ChatMessage("user", user_message, now))
    IN  IF outcome.kind = "ok"
        THEN [history |-> Append(with_user,
                                 ChatMessage("assistant", outcome.text, now + 1)),
              ticks |-> 2, returned |-> <<outcome.text>>, raised |-> "none"]
        ELSE IF outcome.kind = "send_raises"
        THEN [history |-> with_user, ticks |-> 1,
              returned |-> <<error_response(outcome.text)>>, raised |-> "none"]
        ELSE IF outcome.kind = "text_raises"
        THEN [history |-> with_user, ticks |-> 1,
              returned |-> <<>>, raised |-> "Exception"]
        ELSE [history |-> with_user, ticks |-> 1,
              returned |-> <<>>, raised |-> "KeyboardInterrupt"]

\* get_ai_response with the assistant message never recorded
get_ai_response_drops_reply(history, now, user_message, outcome) ==
    LET with_user == Append(history, ChatMessage("user", user_message, now))
    IN  IF outcome.kind = "ok"
        THEN [history |-> with_user, ticks |-> 1,
              returned |-> <<outcome.text>>, raised |-> "none"]
        ELSE IF outcome.kind \in {"send_raises", "text_raises"}
        THEN [history |-> with_user, ticks |-> 1,
              returned |-> <<error_response(outcome.text)>>, raised |-> "none"]
        ELSE [history |-> with_user, ticks |-> 1,
              returned |-> <<>>, raised |-> "KeyboardInterrupt"]

\* AdvancedChatbot.get_ai_response: the history afterwards, the value
\* returned (<<>> when none is) and the exception that leaves the method
get_ai_response(history, now, user_message, outcome) ==
    LET with_user == Append(history, ChatMessage("user", user_message, now))
    IN  IF outcome.kind = "ok"
        THEN [history |-> Append(with_user,
                                 ChatMessage("assistant", outcome.text, now + 1)),
              ticks |-> 2,
              returned |-> <<outcome.text>>,
              raised |-> "none"]
        ELSE IF outcome.kind \in {"send_raises", "text_raises"}
        THEN [history |-> with_user,
              ticks |-> 1,
              returned |-> <<error_response(outcome.text)>>,
              raised |-> "none"]
        ELSE [history |-> with_user,
              ticks |-> 1,
              returned |-> <<>>,
              raised |-> "KeyboardInterrupt"]

\* len([msg for msg in history if msg.role == role])
RECURSIVE count_role(_, _)
count_role(history, role) ==
    IF history = <<>> THEN 0
    ELSE (IF Head(history).role = role THEN 1 ELSE 0) + count_role(Tail(history), role)

NO_CONVERSATION == "No conversation yet."

\* get_conversation_summary with `< 1` for `<= 1`
get_conversation_summary_off_by_one(history) ==
    IF Len(history) < 1
    THEN NO_CONVERSATION
    ELSE "Conversation stats: " \o ToString(count_role(history, "user"))
         \o " user messages, " \o ToString(count_role(history, "assistant"))
         \o " AI responses"

\* AdvancedChatbot.get_conversation_summary
get_conversation_summary(history) ==
    IF Len(history) <= 1
    THEN NO_CONVERSATION
    ELSE "Conversation stats: " \o ToString(count_role(history, "user"))
         \o " user messages, " \o ToString(count_role(history, "assistant"))
         \o " AI responses"

\* conversation_data that puts each message in front of the list
RECURSIVE conversation_data_reversed(_)
conversation_data_reversed(history) ==
    IF history = <<>> THEN <<>>
    ELSE LET msg == Head(history)
         IN  conversation_data_reversed(Tail(history))
             \o (IF msg.role # "system"
                 THEN <<[role |-> msg.role, content |-> msg.content,
                         timestamp |-> isoformat(msg.timestamp)]>>
                 ELSE <<>>)

\* conversation_data without the test on the role
RECURSIVE conversation_data_unfiltered(_)
conversation_data_unfiltered(history) ==
    IF history = <<>> THEN <<>>
    ELSE LET msg == Head(history)
         IN  <<[role |-> msg.role, content |-> msg.content,
                timestamp |-> isoformat(msg.timestamp)]>>
             \o conversation_data_unfiltered(Tail(history))

\* the list save_conversation builds: every message but the system ones
RECURSIVE conversation_data(_)
conversation_data(history) ==
    IF history = <<>> THEN <<>>
    ELSE LET msg == Head(history)
         IN  (IF msg.role # "system"
              THEN <<[role |-> msg.role, content |-> msg.content,
                      timestamp |-> isoformat(msg.timestamp)]>>
              ELSE <<>>)
             \o conversation_data(Tail(history))

\* What open(filename, "w") / json.dump may do.
SaveOutcomes ==
    {[kind |-> "ok", text |-> ""],
     [kind |-> "open_raises", text |-> "Permission denied"],
     [kind |-> "dump_raises", text |-> "No space left on device"]}

\* save_conversation that filters self.conversation_history in place
save_conversation_filters_in_place(history, now, io) ==
    LET filename == "chatbot_conversation_" \o ToString(now) \o ".json"
        kept     == SelectSeq(history, LAMBDA msg : msg.role # "system")
        data     == conversation_data(kept)
    IN  [history |-> kept,
         dumped  |-> IF io.kind = "open_raises" THEN <<>> ELSE <<data>>,
         raised  |-> "none",
         printed |-> IF io.kind = "ok"
                     THEN <<"Conversation saved to " \o filename>>
                     ELSE <<"Error saving conversation: " \o io.text>>]

\* AdvancedChatbot.save_conversation: it returns nothing and changes no
\* attribute; `dumped` is what reached json.dump
save_conversation(history, now, io) ==
    LET filename == "chatbot_conversation_" \o ToString(now) \o ".json"
        data     == conversation_data(history)
    IN  [history |-> history,
         dumped  |-> IF io.kind = "open_raises" THEN <<>> ELSE <<data>>,
         raised  |-> "none",
         printed |-> IF io.kind = "ok"
                     THEN <<"Conversation saved to " \o filename>>
                     ELSE <<"Error saving conversation: " \o io.text>>]

\* clear_history that starts the new session without emptying the history
clear_history_keeps_history(session, started, now, start) ==
    LET chat == _start_chat_session(conversation_history, session, started, now, start)
    IN  [chat EXCEPT !.printed =
            IF chat.exit THEN @ ELSE @ \o <<"Conversation history cleared.">>]

\* clear_history that empties the history and starts no new session
clear_history_no_restart(session, started, now, start) ==
    [exit |-> FALSE, history |-> <<>>, chat_session |-> session,
     printed |-> <<"Conversation history cleared.">>]

\* AdvancedChatbot.clear_history
clear_history(session, started, now, start) ==
    LET chat == _start_chat_session(<<>>, session, started, now, start)
    IN  [chat EXCEPT !.printed =
            IF chat.exit THEN @ ELSE @ \o <<"Conversation history cleared.">>]

-----------------------------------------------------------------------------
(* main(): start-up and the command loop *)

\* What the process environment may hold for GEMINI_API_KEY.
EnvKeys == {<<>>, <<"">>, <<"AIza-demo-key">>}

\* What the user may type at the "You: " prompt.
Lines ==
    {"", "   ", "Hello", "  quit now ", "quit", " EXIT", "Bye\t", "HELP",
     " Clear ", "Summary", "save"}

\* command without .lower() on the tests
command_case_sensitive(raw) ==
    LET user_input == strip(raw)
    IN  IF user_input = "" THEN "empty"
        ELSE IF user_input \in {"quit", "exit", "bye"} THEN "quit"
        ELSE IF user_input = "help" THEN "help"
        ELSE IF user_input = "clear" THEN "clear"
        ELSE IF user_input = "summary" THEN "summary"
        ELSE IF user_input = "save" THEN "save"
        ELSE "chat"

\* the branch of the loop body a raw input line takes
command(raw) ==
    LET user_input == strip(raw)
    IN  IF user_input = "" THEN "empty"
        ELSE IF lower(user_input) \in {"quit", "exit", "bye"} THEN "quit"
        ELSE IF lower(user_input) = "help" THEN "help"
        ELSE IF lower(user_input) = "clear" THEN "clear"
        ELSE IF lower(user_input) = "summary" THEN "summary"
        ELSE IF lower(user_input) = "save" THEN "save"
        ELSE "chat"

\* the except clauses of the loop: where main() goes with an exception
\* raised in the try block ("none": the body ran to its end or to continue)
after_exception(exc) ==
    IF exc = "SystemExit" THEN "exited"
    ELSE IF exc \in {"KeyboardInterrupt", "EOFError"} THEN "done"
    ELSE "loop"

\* what the except clauses of the loop print
exception_report(exc) ==
    IF exc = "KeyboardInterrupt" THEN <<"Chat interrupted. Thanks for chatting!">>
    ELSE IF exc = "EOFError" THEN <<"Input ended. Goodbye!">>
    ELSE IF exc = "Exception"
    THEN <<"An unexpected error occurred", "Please try again or type 'quit' to exit.">>
    ELSE <<>>

Init ==
    /\ pc = "start"
    /\ env_key \in EnvKeys
    /\ api_key = <<>>
    /\ conversation_history = <<>>
    /\ chat_session = <<>>
    /\ sessions = 0
    /\ clock = 0
    /\ prompts = 0
    /\ remote_used = FALSE
    /\ answers = <<>>
    /\ line = <<>>
    /\ calls = <<>>
    /\ returned = <<>>
    /\ raised = "none"
    /\ printed = <<>>
    /\ dumped = <<>>
    /\ GameIdle
    /\ BankIdle

\* main() up to the loop: the welcome message and chatbot = AdvancedChatbot()
MainStart ==
    /\ pc = "start"
    /\ \E connect \in ConnectOutcomes, start \in StartOutcomes :
         LET bot == AdvancedChatbot(<<>>, env_key, clock, connect, start)
         IN  /\ api_key' = bot.api_key
             /\ conversation_history' = bot.history
             /\ chat_session' = bot.chat_session
             /\ sessions' = Len(bot.chat_session)
             /\ clock' = clock + Len(bot.history)
             /\ remote_used' = bot.remote
             /\ answers' = IF ~truthy(bot.api_key) THEN <<>>
                           ELSE IF connect.kind = "ok" THEN <<connect, start>>
                           ELSE <<connect>>
             /\ raised' = IF bot.exit THEN "SystemExit" ELSE bot.raised
             /\ pc' = IF bot.exit THEN "exited"
                      ELSE IF bot.raised = "KeyboardInterrupt" THEN "done"
                      ELSE "loop"
             /\ printed' = <<"Welcome to the Advanced AI Chatbot!">> \o bot.printed
                           \o (IF bot.exit THEN <<>>
                               ELSE IF bot.raised = "KeyboardInterrupt"
                               THEN <<"Goodbye!">>
                               ELSE <<"Chatbot initialized successfully!">>)
    /\ calls' = <<"AdvancedChatbot">>
    /\ UNCHANGED <<env_key, prompts, line, returned, dumped>>
    /\ UNCHANGED <<game_vars, bank_vars>>

\* what every pass of the loop that reads the line raw does first
ReadLine(raw) ==
    /\ pc = "loop"
    /\ prompts < MaxPrompts
    /\ prompts' = prompts + 1
    /\ line' = <<raw>>
    /\ UNCHANGED <<game_vars, bank_vars>>

\* if not user_input: continue
LoopEmpty ==
    \E raw \in Lines :
      /\ ReadLine(raw)
      /\ command(raw) = "empty"
      /\ calls' = <<>> /\ returned' = <<>> /\ raised' = "none" /\ answers' = <<>>
      /\ printed' = <<>> /\ dumped' = <<>>
      /\ UNCHANGED <<pc, env_key, api_key, conversation_history, chat_session,
                     sessions, clock, remote_used>>

\* quit, exit, bye: break
LoopQuit ==
    \E raw \in Lines :
      /\ ReadLine(raw)
      /\ command(raw) = "quit"
      /\ pc' = "done"
      /\ calls' = <<>> /\ returned' = <<>> /\ raised' = "none" /\ answers' = <<>>
      /\ printed' = <<"Thanks for chatting! Have a great day!">> /\ dumped' = <<>>
      /\ UNCHANGED <<env_key, api_key, conversation_history, chat_session,
                     sessions, clock, remote_used>>

\* help: print_help()
LoopHelp ==
    \E raw \in Lines :
      /\ ReadLine(raw)
      /\ command(raw) = "help"
      /\ calls' = <<"print_help">> /\ returned' = <<>> /\ raised' = "none"
      /\ answers' = <<>>
      /\ printed' = <<"Available Commands:">> /\ dumped' = <<>>
      /\ UNCHANGED <<pc, env_key, api_key, conversation_history, chat_session,
                     sessions, clock, remote_used>>

\* clear: chatbot.clear_history()
LoopClear ==
    \E raw \in Lines :
      /\ ReadLine(raw)
      /\ command(raw) = "clear"
      /\ \E start \in StartOutcomes :
           /\ LET r   == clear_history(chat_session, sessions, clock, start)
                  exc == IF r.exit THEN "SystemExit" ELSE "none"
              IN  /\ conversation_history' = r.history
                  /\ chat_session' = r.chat_session
                  /\ sessions' = IF r.exit THEN sessions ELSE sessions + 1
                  /\ clock' = clock + Len(r.history)
                  /\ raised' = exc
                  /\ pc' = after_exception(exc)
                  /\ printed' = r.printed \o exception_report(exc)
           /\ answers' = <<start>>
      /\ calls' = <<"clear_history">> /\ returned' = <<>> /\ dumped' = <<>>
      /\ UNCHANGED <<env_key, api_key, remote_used>>

\* summary: print(chatbot.get_conversation_summary())
LoopSummary ==
    \E raw \in Lines :
      /\ ReadLine(raw)
      /\ command(raw) = "summary"
      /\ calls' = <<"get_conversation_summary">>
      /\ answers' = <<>>
      /\ returned' = <<get_conversation_summary(conversation_history)>>
      /\ raised' = "none"
      /\ printed' = <<get_conversation_summary(conversation_history)>>
      /\ dumped' = <<>>
      /\ UNCHANGED <<pc, env_key, api_key, conversation_history, chat_session,
                     sessions, clock, remote_used>>

\* save: chatbot.save_conversation()
LoopSave ==
    \E raw \in Lines :
      /\ ReadLine(raw)
      /\ command(raw) = "save"
      /\ \E io \in SaveOutcomes :
           /\ LET r == save_conversation(conversation_history, clock, io)
              IN  /\ conversation_history' = r.history
                  /\ dumped' = r.dumped
                  /\ raised' = r.raised
                  /\ pc' = after_exception(r.raised)
                  /\ printed' = r.printed \o exception_report(r.raised)
           /\ answers' = <<io>>
      /\ calls' = <<"save_conversation">> /\ returned' = <<>>
      /\ UNCHANGED <<env_key, api_key, chat_session, sessions, clock, remote_used>>

\* any other line: response = chatbot.get_ai_response(user_input), printed
LoopChat ==
    \E raw \in Lines :
      /\ ReadLine(raw)
      /\ command(raw) = "chat"
      /\ \E outcome \in SendOutcomes :
           /\ LET r == get_ai_response(conversation_history, clock, strip(raw), outcome)
              IN  /\ conversation_history' = r.history
                  /\ clock' = clock + r.ticks
                  /\ returned' = r.returned
                  /\ raised' = r.raised
                  /\ pc' = after_exception(r.raised)
                  /\ printed' = (IF r.raised = "none" THEN r.returned ELSE <<>>)
                                \o exception_report(r.raised)
           /\ answers' = <<outcome>>
      /\ remote_used' = TRUE
      /\ calls' = <<"get_ai_response">> /\ dumped' = <<>>
      /\ UNCHANGED <<env_key, api_key, chat_session, sessions>>

\* Ctrl-C or the end of input at the prompt: input() raises
LoopInputRaises ==
    \E exc \in {"KeyboardInterrupt", "EOFError"} :
      /\ pc = "loop"
      /\ prompts < MaxPrompts
      /\ prompts' = prompts + 1
      /\ line' = <<>>
      /\ raised' = exc
      /\ pc' = after_exception(exc)
      /\ printed' = exception_report(exc)
      /\ calls' = <<>> /\ returned' = <<>> /\ dumped' = <<>> /\ answers' = <<>>
      /\ UNCHANGED <<env_key, api_key, conversation_history, chat_session,
                     sessions, clock, remote_used>>
      /\ UNCHANGED <<game_vars, bank_vars>>

Next ==
    \/ MainStart
    \/ LoopEmpty
    \/ LoopQuit
    \/ LoopHelp
    \/ LoopClear
    \/ LoopSummary
    \/ LoopSave
    \/ LoopChat
    \/ LoopInputRaises

Spec == Init /\ [][Next]_vars

-----------------------------------------------------------------------------
(* The number guessing game: src/number_guessing_game/main.py *)

DIGITS == "0123456789"

\* the value of every decimal digit
DigitOf ==
    [c \in {CharAt(DIGITS, i) : i \in 1..Len(DIGITS)} |->
        (CHOOSE i \in 1..Len(DIGITS) : CharAt(DIGITS, i) = c) - 1]

\* the digits of an int() literal: the text trimmed, without its sign
int_digits(text) ==
    LET t == strip(text)
    IN  IF t # "" /\ CharAt(t, 1) \in {"+", "-"} THEN SubSeq(t, 2, Len(t)) ELSE t

\* whether int(text) returns (otherwise it raises ValueError)
int_accepts(text) ==
    LET d == int_digits(text)
    IN  d # "" /\ \A i \in 1..Len(d) : CharAt(d, i) \in DOMAIN DigitOf

RECURSIVE digits_value(_)
digits_value(d) ==
    IF d = "" THEN 0
    ELSE 10 * digits_value(SubSeq(d, 1, Len(d) - 1)) + DigitOf[CharAt(d, Len(d))]

\* int(text), for a text int() accepts
py_int(text) ==
    LET t == strip(text)
        v == digits_value(int_digits(text))
    IN  IF CharAt(t, 1) = "-" THEN 0 - v ELSE v

\* random.randint(LOWEST, HIGHEST)
LOWEST == 1
HIGHEST == 100

\* attempts = 3
ATTEMPTS == 3

\* What the player may type at "Enter your guess: ".
GuessLines == {"1", " 50 ", "+77", "100", "-3", "abc", "", "3.5"}

\* guess_step with `attempts -= 1` placed before the int() call
guess_step_counts_invalid(number, left, text) ==
    IF ~int_accepts(text)
    THEN [attempts |-> left - 1, found |-> FALSE, parsed |-> FALSE,
          printed |-> <<"Please enter a valid integer.">>]
    ELSE LET guess == py_int(text)
             now_left == left - 1
         IN  IF guess < number
             THEN [attempts |-> now_left, found |-> FALSE, parsed |-> TRUE,
                   printed |-> <<"Too low! Try again.">>]
             ELSE IF guess > number
             THEN [attempts |-> now_left, found |-> FALSE, parsed |-> TRUE,
                   printed |-> <<"Too high! Try again.">>]
             ELSE [attempts |-> now_left, found |-> TRUE, parsed |-> TRUE,
                   printed |-> <<"Congratulations! You've guessed the number "
                                 \o ToString(number) \o " in "
                                 \o ToString(now_left) \o " attempts.">>]

\* one pass of `while attempts > 0`: the try block on the line read
guess_step(number, left, text) ==
    IF ~int_accepts(text)
    THEN [attempts |-> left, found |-> FALSE, parsed |-> FALSE,
          printed |-> <<"Please enter a valid integer.">>]
    ELSE LET guess == py_int(text)
             now_left == left - 1
         IN  IF guess < number
             THEN [attempts |-> now_left, found |-> FALSE, parsed |-> TRUE,
                   printed |-> <<"Too low! Try again.">>]
             ELSE IF guess > number
             THEN [attempts |-> now_left, found |-> FALSE, parsed |-> TRUE,
                   printed |-> <<"Too high! Try again.">>]
             ELSE [attempts |-> now_left, found |-> TRUE, parsed |-> TRUE,
                   printed |-> <<"Congratulations! You've guessed the number "
                                 \o ToString(number) \o " in "
                                 \o ToString(now_left) \o " attempts.">>]

InitGame ==
    /\ pc = "off"
    /\ env_key = <<>>
    /\ api_key = <<>>
    /\ conversation_history = <<>>
    /\ chat_session = <<>>
    /\ sessions = 0
    /\ clock = 0
    /\ prompts = 0
    /\ remote_used = FALSE
    /\ answers = <<>>
    /\ line = <<>>
    /\ calls = <<>>
    /\ returned = <<>>
    /\ raised = "none"
    /\ printed = <<>>
    /\ dumped = <<>>
    /\ g_pc = "start"
    /\ number_to_guess = 0
    /\ attempts = 0
    /\ guess_found = FALSE
    /\ guesses = 0
    /\ g_inputs = 0
    /\ g_line = <<>>
    /\ g_output = <<>>
    /\ BankIdle

\* main() up to the loop: the welcome lines, the number drawn, attempts = 3
GameStart ==
    /\ g_pc = "start"
    /\ number_to_guess' \in LOWEST..HIGHEST
    /\ attempts' = ATTEMPTS
    /\ guess_found' = FALSE
    /\ g_output' = <<"Welcome to the Number Guessing Game!",
                    "I'm thinking of a number between 1 and 100.">>
    /\ g_pc' = "play"
    /\ UNCHANGED <<guesses, g_inputs, g_line>>
    /\ UNCHANGED <<chat_vars, bank_vars>>

\* one pass of the loop; the loop is left by break or when attempts is 0
GameGuess ==
    /\ g_pc = "play"
    /\ attempts > 0
    /\ g_inputs < MaxGameInputs
    /\ \E text \in GuessLines :
         LET r == guess_step(number_to_guess, attempts, text)
         IN  /\ g_line' = <<text>>
             /\ attempts' = r.attempts
             /\ guess_found' = r.found
             /\ guesses' = IF r.parsed THEN guesses + 1 ELSE guesses
             /\ g_output' = g_output \o r.printed
             /\ g_pc' = IF r.found \/ r.attempts <= 0 THEN "over" ELSE "play"
    /\ g_inputs' = g_inputs + 1
    /\ UNCHANGED number_to_guess
    /\ UNCHANGED <<chat_vars, bank_vars>>

\* after the loop: the out-of-attempts line unless the number was guessed,
\* then the thanks
GameEnd ==
    /\ g_pc = "over"
    /\ g_output' = g_output
                   \o (IF ~guess_found
                       THEN <<"Sorry, you've run out of attempts. The number was "
                              \o ToString(number_to_guess) \o ".">>
                       ELSE <<>>)
                   \o <<"Thanks for playing!">>
    /\ g_pc' = "done"
    /\ UNCHANGED <<number_to_guess, attempts, guess_found, guesses, g_inputs, g_line>>
    /\ UNCHANGED <<chat_vars, bank_vars>>

NextGame ==
    \/ GameStart
    \/ GameGuess
    \/ GameEnd

SpecGame == InitGame /\ [][NextGame]_vars

-----------------------------------------------------------------------------
(* The banking app: src/simple-bank-app/main.py *)
(* Amounts are whole numbers, which float holds exactly.                   *)

\* whether float(text) returns (otherwise it raises ValueError), for a text
\* without fraction or exponent
float_accepts(text) == int_accepts(text)

\* float(text), for such a text
py_float(text) == py_int(text)

\* str() of a float that is a whole number
float_str(x) == ToString(x) \o ".0"

\* f"{balance}": balance is the int 0 until a deposit makes it a float
balance_str(x, is_float) == IF is_float THEN float_str(x) ELSE ToString(x)

\* What the user may type at the menu and at the amount prompts.
MenuLines == {"1", "2", "3", "4", "5", " 2", ""}
AmountLines == {"10", " 3 ", "-5", "0", "abc"}

\* withdraw without the test `amount <= balance`
withdraw_without_funds_test(bal, is_float, text) ==
    IF ~float_accepts(text)
    THEN [balance |-> bal, is_float |-> is_float, raised |-> "ValueError",
          printed |-> <<>>]
    ELSE LET amount == py_float(text)
         IN  IF amount > 0
             THEN [balance |-> bal - amount, is_float |-> TRUE, raised |-> "none",
                   printed |-> <<"Withdrew $" \o float_str(amount)
                                 \o ". New balance: $" \o float_str(bal - amount)>>]
             ELSE [balance |-> bal, is_float |-> is_float, raised |-> "none",
                   printed |-> <<"Withdrawal amount must be positive.">>]

\* display_balance
display_balance(bal, is_float) ==
    <<"Your account balance: $" \o balance_str(bal, is_float)>>

\* deposit: the balance returned, or the ValueError of float()
deposit(bal, is_float, text) ==
    IF ~float_accepts(text)
    THEN [balance |-> bal, is_float |-> is_float, raised |-> "ValueError",
          printed |-> <<>>]
    ELSE LET amount == py_float(text)
         IN  IF amount > 0
             THEN [balance |-> bal + amount, is_float |-> TRUE, raised |-> "none",
                   printed |-> <<"Deposited $" \o float_str(amount)
                                 \o ". New balance: $" \o float_str(bal + amount)>>]
             ELSE [balance |-> bal, is_float |-> is_float, raised |-> "none",
                   printed |-> <<"Deposit amount must be positive.">>]

\* withdraw: the balance returned, or the ValueError of float()
withdraw(bal, is_float, text) ==
    IF ~float_accepts(text)
    THEN [balance |-> bal, is_float |-> is_float, raised |-> "ValueError",
          printed |-> <<>>]
    ELSE LET amount == py_float(text)
         IN  IF amount > 0
             THEN IF amount <= bal
                  THEN [balance |-> bal - amount, is_float |-> TRUE, raised |-> "none",
                        printed |-> <<"Withdrew $" \o float_str(amount)
                                      \o ". New balance: $" \o float_str(bal - amount)>>]
                  ELSE [balance |-> bal, is_float |-> is_float, raised |-> "none",
                        printed |-> <<"Insufficient funds.">>]
             ELSE [balance |-> bal, is_float |-> is_float, raised |-> "none",
                   printed |-> <<"Withdrawal amount must be positive.">>]

\* main() at the head of its loop, balance = 0
InitBank ==
    /\ pc = "off"
    /\ env_key = <<>>
    /\ api_key = <<>>
    /\ conversation_history = <<>>
    /\ chat_session = <<>>
    /\ sessions = 0
    /\ clock = 0
    /\ prompts = 0
    /\ remote_used = FALSE
    /\ answers = <<>>
    /\ line = <<>>
    /\ calls = <<>>
    /\ returned = <<>>
    /\ raised = "none"
    /\ printed = <<>>
    /\ dumped = <<>>
    /\ GameIdle
    /\ b_pc = "menu"
    /\ balance = 0
    /\ b_float = FALSE
    /\ b_inputs = 0
    /\ b_choice = <<>>
    /\ b_amount = <<>>
    /\ b_printed = <<>>

\* what every pass of the loop does first: the menu, choice = input(...)
ReadChoice(choice) ==
    /\ b_pc = "menu"
    /\ b_inputs < MaxBankInputs
    /\ b_inputs' = b_inputs + 1
    /\ b_choice' = <<choice>>
    /\ UNCHANGED <<chat_vars, game_vars>>

\* choice == "1"
BankDisplay ==
    /\ ReadChoice("1")
    /\ b_printed' = display_balance(balance, b_float)
    /\ b_amount' = <<>>
    /\ UNCHANGED <<b_pc, balance, b_float>>

\* choice == "2": balance = deposit(balance)
BankDeposit ==
    /\ ReadChoice("2")
    /\ \E text \in AmountLines :
         LET r == deposit(balance, b_float, text)
         IN  /\ b_amount' = <<text>>
             /\ balance' = r.balance
             /\ b_float' = r.is_float
             /\ b_printed' = r.printed
             /\ b_pc' = IF r.raised = "none" THEN "menu" ELSE "crashed"

\* choice == "3": balance = withdraw(balance)
BankWithdraw ==
    /\ ReadChoice("3")
    /\ \E text \in AmountLines :
         LET r == withdraw(balance, b_float, text)
         IN  /\ b_amount' = <<text>>
             /\ balance' = r.balance
             /\ b_float' = r.is_float
             /\ b_printed' = r.printed
             /\ b_pc' = IF r.raised = "none" THEN "menu" ELSE "crashed"

\* choice == "4": break
BankQuit ==
    /\ ReadChoice("4")
    /\ b_printed' = <<"Thank you for using the Simple Banking App. Goodbye!">>
    /\ b_amount' = <<>>
    /\ b_pc' = "done"
    /\ UNCHANGED <<balance, b_float>>

\* any other choice
BankInvalid ==
    /\ \E choice \in MenuLines \ {"1", "2", "3", "4"} : ReadChoice(choice)
    /\ b_printed' = <<"Invalid option. Please try again.">>
    /\ b_amount' = <<>>
    /\ UNCHANGED <<b_pc, balance, b_float>>

NextBank ==
    \/ BankDisplay
    \/ BankDeposit
    \/ BankWithdraw
    \/ BankQuit
    \/ BankInvalid

SpecBank == InitBank /\ [][NextBank]_vars

-----------------------------------------------------------------------------
(* The claims *)

\* the last step called get_ai_response and the remote call answered `kinds`
SendAnswered(kinds) ==
    /\ calls = <<"get_ai_response">>
    /\ answers # <<>>
    /\ answers[1].kind \in kinds

\* C1: a get_ai_response call whose remote call succeeds appends exactly two
\* entries to the transcript, the user entry with the text sent and then the
\* assistant entry with the text returned, and get_conversation_summary then
\* reports one more user message and one more AI response (from a fresh
\* session after "Hello": "1 user messages, 1 AI responses").
C1_SuccessfulSendAddsTwo ==
    [][SendAnswered({"ok"})' =>
        LET old  == conversation_history
            new  == conversation_history'
            text == strip(line'[1])
        IN  /\ text # ""
            /\ Len(new) = Len(old) + 2
            /\ SubSeq(new, 1, Len(old)) = old
            /\ new[Len(old) + 1].role = "user"
            /\ new[Len(old) + 1].content = text
            /\ new[Len(old) + 2].role = "assistant"
            /\ new[Len(old) + 2].content = answers'[1].text
            /\ returned' = <<answers'[1].text>>
            /\ get_conversation_summary(new) =
                 "Conversation stats: " \o ToString(count_role(old, "user") + 1)
                 \o " user messages, " \o ToString(count_role(old, "assistant") + 1)
                 \o " AI responses"
            /\ (Len(old) = 1 /\ text = "Hello" =>
                  get_conversation_summary(new) =
                    "Conversation stats: 1 user messages, 1 AI responses")
      ]_vars

C1_Witness ==
    /\ SendAnswered({"ok"})
    /\ line = <<"Hello">>
    /\ Len(conversation_history) = 3
    /\ get_conversation_summary(conversation_history) =
         "Conversation stats: 1 user messages, 1 AI responses"

\* C2: a completed clear_history leaves a transcript of exactly one entry,
\* the system message, whatever came before, and get_conversation_summary
\* then returns "No conversation yet.".
C2_ClearLeavesSystemOnly ==
    (calls = <<"clear_history">> /\ raised = "none") =>
        /\ Len(conversation_history) = 1
        /\ conversation_history[1].role = "system"
        /\ conversation_history[1].content = system_prompt
        /\ get_conversation_summary(conversation_history) = "No conversation yet."

\* a clear completed after an earlier clear, a save and sends (the clock has
\* ticked for more messages than the system messages of the sessions)
C2_Witness ==
    /\ calls = <<"clear_history">>
    /\ raised = "none"
    /\ sessions = 2
    /\ clock > 3
    /\ Len(conversation_history) = 1

\* C3: what save_conversation hands to json.dump holds no entry of role
\* system and has one entry less than the transcript; so does the list it
\* would build in any state of the session.
C3_SavedDataOmitsSystem ==
    /\ pc = "loop" =>
         LET data == conversation_data(conversation_history)
         IN  /\ \A i \in 1..Len(data) : data[i].role # "system"
             /\ Len(data) = Len(conversation_history) - 1
    /\ dumped # <<>> =>
         /\ \A i \in 1..Len(dumped[1]) : dumped[1][i].role # "system"
         /\ Len(dumped[1]) = Len(conversation_history) - 1

C3_Witness ==
    /\ calls = <<"save_conversation">>
    /\ dumped # <<>>
    /\ Len(dumped[1]) = 3
    /\ Len(conversation_history) = 4

\* whether the text s begins with prefix
StartsWith(s, prefix) ==
    Len(s) >= Len(prefix) /\ SubSeq(s, 1, Len(prefix)) = prefix

\* C4: get_ai_response never raises to its caller when the remote call fails:
\* whether send_message or reading response.text raises, the call returns one
\* of its explanatory texts, which the loop prints before it prompts again;
\* and a call whose remote call succeeds returns the reply without raising.
C4_RemoteFailureIsReturned ==
    /\ SendAnswered({"send_raises", "text_raises"}) =>
         /\ raised = "none"
         /\ pc = "loop"
         /\ returned # <<>>
         /\ returned[1] \in {RATE_LIMITED, CONNECTIVITY \o answers[1].text,
                             UNKNOWN \o answers[1].text}
         /\ printed = returned
    /\ SendAnswered({"ok"}) =>
         /\ raised = "none"
         /\ returned = <<answers[1].text>>

C4_Witness ==
    /\ SendAnswered({"text_raises"})
    /\ answers[1].text = "Connection reset"
    /\ returned = <<"Something unexpected happened: Connection reset">>
    /\ raised = "none"
    /\ pc = "loop"

\* C5: every remote-call failure gets a response of exactly one of the three
\* kinds (rate-limited, connectivity, unknown), and a failure whose
\* lower-cased message contains "quota" or "limit" gets the rate-limit text,
\* which differs from every connectivity response, also when the message
\* contains "api" as well.
C5_ClassificationExclusive ==
    SendAnswered({"send_raises", "text_raises"}) =>
        LET e    == answers[1].text
            msg  == lower(e)
            resp == returned[1]
            rate == contains(msg, "quota") \/ contains(msg, "limit")
            kinds == {k \in {"rate-limited", "connectivity", "unknown"} :
                        \/ k = "rate-limited" /\ resp = RATE_LIMITED
                        \/ k = "connectivity" /\ StartsWith(resp, CONNECTIVITY)
                        \/ k = "unknown" /\ StartsWith(resp, UNKNOWN)}
        IN  /\ Cardinality(kinds) = 1
            /\ rate => /\ kinds = {"rate-limited"}
                       /\ \A other \in ErrorTexts : resp # CONNECTIVITY \o other
            /\ (~rate /\ contains(msg, "api")) => resp = CONNECTIVITY \o e
            /\ (~rate /\ ~contains(msg, "api")) => resp = UNKNOWN \o e

\* a failure whose message holds both "quota" and "api"
C5_Witness ==
    /\ SendAnswered({"send_raises"})
    /\ answers[1].text = "API quota exceeded"
    /\ returned = <<RATE_LIMITED>>

C7_OnlyStartupTerminates ==
    /\ pc = "exited" => calls = <<"AdvancedChatbot">>
    /\ calls = <<"clear_history">> => (pc = "loop" /\ raised = "none")

\* C8: whenever the transcript is not empty, its first entry is the system
\* message with the persona text and no other entry has role system.
C8_SystemMessageFirstAndOnly ==
    conversation_history # <<>> =>
        /\ conversation_history[1].role = "system"
        /\ conversation_history[1].content = system_prompt
        /\ \A i \in 2..Len(conversation_history) :
             conversation_history[i].role # "system"

\* a failed send in the second session, after a clear
C8_Witness ==
    /\ sessions = 2
    /\ SendAnswered({"send_raises"})
    /\ Len(conversation_history) = 2
    /\ conversation_history[2].role = "user"

\* C9: save_conversation leaves the transcript and the chat handle as they
\* were, whether the write succeeds or fails; a failure to open or to write
\* the file is printed, nothing is raised, and main stays in the loop.
C9_SaveChangesNothing ==
    [][calls' = <<"save_conversation">> =>
        /\ conversation_history' = conversation_history
        /\ chat_session' = chat_session
        /\ sessions' = sessions
        /\ raised' = "none"
        /\ pc' = "loop"
        /\ answers'[1].kind \in {"open_raises", "dump_raises"} =>
             printed' = <<"Error saving conversation: " \o answers'[1].text>>
      ]_vars

C9_Witness ==
    /\ calls = <<"save_conversation">>
    /\ answers[1].kind = "open_raises"
    /\ printed = <<"Error saving conversation: Permission denied">>
    /\ Len(conversation_history) = 3
    /\ pc = "loop"

ControlWords == {"quit", "exit", "bye", "help", "clear", "summary", "save"}

\* C10: the loop dispatches a line on its trimmed, lower-cased text: an empty
\* line calls nothing and stays in the loop; quit, exit and bye end the loop;
\* help, clear, summary and save call exactly their operation and make no
\* send; any other line goes to get_ai_response once, with the trimmed text.
\* The transcript gains a user entry only for a line that is no control word.
C10_Dispatch ==
    [][(prompts' = prompts + 1 /\ line' # <<>>) =>
        LET text == strip(line'[1])
            word == lower(text)
            old  == conversation_history
            new  == conversation_history'
        IN  /\ word = "" => (calls' = <<>> /\ pc' = "loop" /\ new = old)
            /\ word \in {"quit", "exit", "bye"} =>
                 (calls' = <<>> /\ pc' = "done" /\ new = old)
            /\ word = "help" => (calls' = <<"print_help">> /\ pc' = "loop" /\ new = old)
            /\ word = "clear" => calls' = <<"clear_history">>
            /\ word = "summary" =>
                 (calls' = <<"get_conversation_summary">> /\ pc' = "loop" /\ new = old)
            /\ word = "save" => (calls' = <<"save_conversation">> /\ new = old)
            /\ word \in ControlWords \cup {""} =>
                 /\ remote_used' = remote_used
                 /\ count_role(new, "user") <= count_role(old, "user")
            /\ word \notin ControlWords \cup {""} =>
                 /\ calls' = <<"get_ai_response">>
                 /\ count_role(new, "user") = count_role(old, "user") + 1
                 /\ new[Len(old) + 1] = ChatMessage("user", text, clock)
      ]_vars

\* a line that holds a control word and more is sent, trimmed
C10_Witness ==
    /\ line = <<"  quit now ">>
    /\ calls = <<"get_ai_response">>
    /\ conversation_history[Len(conversation_history)].content = "quit now"
    /\ pc = "loop"

\* the positions of the entries of one role in a transcript
Positions(history, role) == {i \in 1..Len(history) : history[i].role = role}

\* C11: get_conversation_summary changes neither the transcript nor the chat
\* handle; it returns "No conversation yet." exactly when the transcript has
\* at most the system entry, and otherwise the numbers of user and of
\* assistant entries in the transcript.
C11_SummaryIsPureAndCounts ==
    [][calls' = <<"get_conversation_summary">> =>
        LET h == conversation_history
        IN  /\ conversation_history' = h
            /\ chat_session' = chat_session
            /\ sessions' = sessions
            /\ clock' = clock
            /\ (returned' = <<"No conversation yet.">>) <=> (Len(h) <= 1)
            /\ Len(h) > 1 =>
                 returned' = <<"Conversation stats: "
                               \o ToString(Cardinality(Positions(h, "user")))
                               \o " user messages, "
                               \o ToString(Cardinality(Positions(h, "assistant")))
                               \o " AI responses">>
      ]_vars

\* a summary asked after one successful and one failed send
C11_Witness ==
    /\ calls = <<"get_conversation_summary">>
    /\ Len(conversation_history) = 4
    /\ returned = <<"Conversation stats: 2 user messages, 1 AI responses">>

\* C12: the list save_conversation writes is the sequence of the transcript's
\* entries that are not the system entry, in the transcript's order, each
\* with its role (user or assistant) and its content unchanged.
C12_SavedListIsTranscript ==
    dumped # <<>> =>
        LET data == dumped[1]
            kept == SelectSeq(conversation_history, LAMBDA msg : msg.role # "system")
        IN  /\ Len(data) = Len(kept)
            /\ \A i \in 1..Len(data) :
                 /\ data[i].role = kept[i].role
                 /\ data[i].role \in {"user", "assistant"}
                 /\ data[i].content = kept[i].content
                 /\ data[i].timestamp = ToString(kept[i].timestamp)

\* a successful save of a user entry and the assistant entry after it
C12_Witness ==
    /\ calls = <<"save_conversation">>
    /\ answers[1].kind = "ok"
    /\ dumped # <<>>
    /\ Len(dumped[1]) = 2
    /\ dumped[1][1].role = "user" /\ dumped[1][1].content = "Hello"
    /\ dumped[1][2].role = "assistant"

\* C13: the loop ends only on a quit, exit or bye line, on an interrupt or on
\* the end of input; an interrupt or EOF at the prompt ends it with the
\* farewell and no call of a session operation; any other exception raised
\* while a line is handled is reported and the loop goes on.
C13_LoopEndsOnlyOnQuitOrSignal ==
    [][pc = "loop" =>
        /\ pc' # "loop" =>
             \/ line' # <<>> /\ lower(strip(line'[1])) \in {"quit", "exit", "bye"}
             \/ raised' \in {"KeyboardInterrupt", "EOFError"}
        /\ (line' = <<>> /\ raised' \in {"KeyboardInterrupt", "EOFError"}) =>
             /\ pc' = "done"
             /\ calls' = <<>>
             /\ printed' \in {<<"Chat interrupted. Thanks for chatting!">>,
                              <<"Input ended. Goodbye!">>}
        /\ raised' \notin {"none", "KeyboardInterrupt", "EOFError"} =>
             /\ pc' = "loop"
             /\ printed' # <<>>
      ]_vars

\* C15: every send appends exactly one user entry, and the assistant entry
\* after it exactly when the remote call succeeds: a failed send appends the
\* user entry alone and only returns its error text.  So there are never
\* more assistant than user entries, and every assistant entry comes right
\* after a user entry.
C15_OneUserPerSendOneAssistantPerSuccess ==
    [][LET old == conversation_history
           new == conversation_history'
       IN  /\ calls' = <<"get_ai_response">> =>
                /\ Len(new) >= Len(old) + 1
                /\ SubSeq(new, 1, Len(old) + 1) =
                     Append(old, ChatMessage("user", strip(line'[1]), clock))
                /\ answers'[1].kind = "ok" =>
                     /\ Len(new) = Len(old) + 2
                     /\ new[Len(new)].role = "assistant"
                     /\ new[Len(new)].content = answers'[1].text
                /\ answers'[1].kind # "ok" => Len(new) = Len(old) + 1
                /\ answers'[1].kind \in {"send_raises", "text_raises"} =>
                     /\ returned' # <<>>
                     /\ \A i \in 1..Len(new) : new[i].content # returned'[1]
           /\ Cardinality(Positions(new, "assistant"))
                <= Cardinality(Positions(new, "user"))
           /\ \A i \in Positions(new, "assistant") :
                i > 1 /\ new[i - 1].role = "user"
      ]_vars

\* a failed send after a successful one
C15_Witness ==
    /\ SendAnswered({"send_raises", "text_raises"})
    /\ Len(conversation_history) = 4
    /\ conversation_history[3].role = "assistant"
    /\ conversation_history[4].role = "user"

\* the lines of the game's output that begin with `opening`
OutputLines(opening) ==
    {i \in 1..Len(g_output) : StartsWith(g_output[i], opening)}

\* the texts among the player's lines that are integers
IntegerGuesses == {"1", " 50 ", "+77", "100", "-3"}

\* C14: the player has 3 attempts: the game takes at most 3 integer guesses,
\* an input that is no integer is asked again and costs no attempt, the game
\* reads nothing after the first correct guess, and it ends with exactly one
\* of the congratulation and the out-of-attempts line (the latter after 3
\* wrong integer guesses), and then the thanks.
C14_ThreeAttempts ==
    [][/\ guesses' <= 3
       /\ g_inputs' > g_inputs =>
            /\ ~guess_found
            /\ guesses < 3
            /\ g_line'[1] \notin IntegerGuesses =>
                 /\ guesses' = guesses
                 /\ attempts' = attempts
                 /\ g_pc' = "play"
                 /\ g_output' = Append(g_output, "Please enter a valid integer.")
            /\ g_line'[1] \in IntegerGuesses => guesses' = guesses + 1
       /\ g_pc' = "done" =>
            LET won  == OutputLines("Congratulations!")'
                lost == OutputLines("Sorry, you've run out of attempts.")'
            IN  /\ Cardinality(won) + Cardinality(lost) = 1
                /\ won # {} <=> guess_found'
                /\ lost # {} => (guesses' = 3 /\ ~guess_found')
                /\ g_output'[Len(g_output')] = "Thanks for playing!"
                /\ \A i \in won \cup lost : i = Len(g_output') - 1
      ]_vars

\* a lost game: two inputs that are no integers among three wrong guesses
C14_Witness ==
    /\ g_pc = "done"
    /\ g_inputs = 5
    /\ guesses = 3
    /\ ~guess_found
    /\ OutputLines("Please enter a valid integer.") # {}
    /\ OutputLines("Sorry, you've run out of attempts.") # {}

\* C16: when the number is guessed, the congratulation reports the number of
\* integer guesses made so far, the correct one included (1, 2 or 3).
C16_CongratulationCountsGuesses ==
    guess_found =>
        /\ guesses \in 1..3
        /\ \E i \in 1..Len(g_output) :
             g_output[i] = "Congratulations! You've guessed the number "
                           \o ToString(number_to_guess) \o " in "
                           \o ToString(guesses) \o " attempts."

\* the amounts among the texts typed that float() accepts, and their values
NumericAmounts == ("10" :> 10) @@ (" 3 " :> 3) @@ ("-5" :> 0 - 5) @@ ("0" :> 0)

\* C17: in the banking app the balance, 0 at first, is never negative: a
\* deposit changes it only for a positive amount, by adding the amount; a
\* withdrawal changes it only for a positive amount not above the balance, by
\* subtracting the amount; the display, an invalid option and a rejected
\* amount leave it as it was.
C17_BalanceNeverNegative ==
    [][/\ balance' >= 0
       /\ b_inputs' > b_inputs =>
            LET choice == b_choice'[1]
                typed  == b_amount' # <<>> /\ b_amount'[1] \in DOMAIN NumericAmounts
                amount == NumericAmounts[b_amount'[1]]
            IN  /\ (choice = "2" /\ typed) =>
                     balance' = IF amount > 0 THEN balance + amount ELSE balance
                /\ (choice = "3" /\ typed) =>
                     balance' = IF amount > 0 /\ amount <= balance
                                THEN balance - amount
                                ELSE balance
                /\ choice \notin {"2", "3"} => (balance' = balance /\ b_amount' = <<>>)
      ]_vars

\* a withdrawal refused for insufficient funds
C17_Witness ==
    /\ b_choice = <<"3">>
    /\ b_amount = <<"10">>
    /\ balance = 3
    /\ b_printed = <<"Insufficient funds.">>
    /\ b_pc = "menu"

====
